---- MODULE Spec2Model ----
(***************************************************************************)
(* Model of functions/contact.ts: the onRequestPost contact-form handler.  *)
(* Strings the handler inspects character by character are sequences of    *)
(* one-character strings; a value that may be null / undefined / not a     *)
(* string is a record [t, v] with t in {"str", "undef", "other"}.          *)
(***************************************************************************)
EXTENDS Integers, Sequences, FiniteSets, TLC

VARIABLES request, env, pc, bodyRead, contactData, fetched, providerResult,
          error, response

vars == <<request, env, pc, bodyRead, contactData, fetched, providerResult,
          error, response>>

\* Longest string of the exhaustive sanitation inputs.
MaxLen == 4

\* Length limits of the handler.
NameLimit == 100
EmailLimit == 255
MessageLimit == 5000

----------------------------------------------------------------------------
\* Values

Str(s) == [t |-> "str", v |-> s]
Undef == [t |-> "undef", v |-> <<>>]
Other == [t |-> "other", v |-> <<>>]

Rep(c, n) == [i \in 1..n |-> c]

Min(S) == CHOOSE m \in S : \A k \in S : m <= k

\* \s of a JavaScript regular expression, and the characters trim() removes.
Whitespace == {" ", "\n", "\t"}

\* JavaScript truthiness of a header value or a field: null, undefined and
\* the empty string are falsy; a non-empty string or an object is truthy.
Truthy(val) == (val.t = "str" /\ val.v # <<>>) \/ val.t = "other"

----------------------------------------------------------------------------
\* String.prototype.split(','): the entries between the commas.

RECURSIVE Split(_)
Split(str) ==
  LET commas == {i \in 1..Len(str) : str[i] = ","}
  IN IF commas = {} THEN <<str>>
     ELSE LET p == Min(commas)
          IN <<SubSeq(str, 1, p - 1)>> \o Split(SubSeq(str, p + 1, Len(str)))

\* Array.prototype.includes: some element equals the value.
Includes(arr, val) == \E i \in 1..Len(arr) : arr[i] = val

\* origin && !allowedDomains.includes(origin)
OriginForbidden(origin, allowedDomains) ==
  Truthy(origin) /\ ~Includes(allowedDomains, origin.v)

----------------------------------------------------------------------------
\* str.replace(/<[^>]*>/g, ''): the scan takes the leftmost '<' that has a
\* '>' somewhere after it, the match runs to the first such '>' ([^>]* cannot
\* cross one), the match is removed and the scan goes on after it.

RECURSIVE StripTagsInnermost(_)
StripTagsInnermost(str) ==
  LET closes(i) == {k \in (i + 1)..Len(str) : str[k] = ">"}
      opens == {i \in 1..Len(str) :
                  /\ str[i] = "<" /\ closes(i) # {}
                  /\ \A k \in (i + 1)..(Min(closes(i)) - 1) : str[k] # "<"}
  IN IF opens = {} THEN str
     ELSE LET p == Min(opens)
              q == Min(closes(p))
          IN SubSeq(str, 1, p - 1)
               \o StripTagsInnermost(SubSeq(str, q + 1, Len(str)))

RECURSIVE StripTags(_)
StripTags(str) ==
  LET opens == {i \in 1..Len(str) :
                  str[i] = "<" /\ \E q \in (i + 1)..Len(str) : str[q] = ">"}
  IN IF opens = {} THEN str
     ELSE LET p == Min(opens)
              q == Min({k \in (p + 1)..Len(str) : str[k] = ">"})
          IN SubSeq(str, 1, p - 1) \o StripTags(SubSeq(str, q + 1, Len(str)))

\* String.prototype.trim()
Trim(str) ==
  LET n == Len(str)
      lead == CHOOSE k \in 0..n :
                /\ \A i \in 1..k : str[i] \in Whitespace
                /\ (k = n \/ str[k + 1] \notin Whitespace)
      trail == CHOOSE k \in 0..(n - lead) :
                 /\ \A i \in (n - k + 1)..n : str[i] \in Whitespace
                 /\ (k = n - lead \/ str[n - k] \notin Whitespace)
  IN SubSeq(str, lead + 1, n - trail)

sanitize(str) == Trim(StripTags(str))

----------------------------------------------------------------------------
\* emailRegex = /^[^\s@]+@[^\s@]+\.[^\s@]+$/ run as an automaton over the
\* whole string.  State 0: start, 1: in the local part, 2: after '@',
\* 3: in the domain, 4: after the '.', 5: in the last part (accepting).
\* [^\s@] also matches '.', so state 3 both stays and moves on a '.'.

Atom(c) == c \notin Whitespace /\ c # "@"

Step(q, c) ==
  CASE q = 0 -> IF Atom(c) THEN {1} ELSE {}
    [] q = 1 -> IF Atom(c) THEN {1} ELSE IF c = "@" THEN {2} ELSE {}
    [] q = 2 -> IF Atom(c) THEN {3} ELSE {}
    [] q = 3 -> IF c = "." THEN {3, 4} ELSE IF Atom(c) THEN {3} ELSE {}
    [] q = 4 -> IF Atom(c) THEN {5} ELSE {}
    [] q = 5 -> IF Atom(c) THEN {5} ELSE {}

\* The states the automaton is in after str[lo..hi], started in the states
\* qs; the run over a range is the run over its first half, then its second.
RECURSIVE Run(_, _, _, _)
Run(qs, str, lo, hi) ==
  IF lo > hi \/ qs = {} THEN qs
  ELSE IF lo = hi THEN UNION {Step(q, str[lo]) : q \in qs}
  ELSE LET mid == (lo + hi) \div 2
       IN Run(Run(qs, str, lo, mid), str, mid + 1, hi)

emailRegexNoDot(str) ==
  /\ Len(str) > 0
  /\ Cardinality({i \in 1..Len(str) : str[i] = "@"}) = 1
  /\ \A i \in 1..Len(str) : str[i] \notin Whitespace
  /\ str[1] # "@" /\ str[Len(str)] # "@"

emailRegexTest(str) == 5 \in Run({0}, str, 1, Len(str))

----------------------------------------------------------------------------
\* Responses

\* JSON.stringify({ success: ..., message: ... })
JSONstringify(success, message) ==
  "{\"success\":" \o (IF success THEN "true" ELSE "false")
    \o ",\"message\":\"" \o message \o "\"}"

TextResponse(text, status) ==
  [status |-> status, body |-> text, contentType |-> "text/plain"]

JsonResponse(success, message, status) ==
  [status |-> status, body |-> JSONstringify(success, message),
   contentType |-> "application/json"]

\* The catch block: the error is logged, the reply is the fixed 500.
CatchLeak(err) ==
  /\ error' = err
  /\ response' = Append(response, JsonResponse(FALSE, err, 500))
  /\ pc' = "done"

Catch(err) ==
  /\ error' = err
  /\ response' = Append(response, JsonResponse(FALSE, "Failed to send email", 500))
  /\ pc' = "done"

Return(resp) ==
  /\ response' = Append(response, resp)
  /\ pc' = "done"
  /\ UNCHANGED error

----------------------------------------------------------------------------
\* Body parsing

JsonContentTypes == {"application/json", "application/json; charset=utf-8"}
FormContentTypes == {"application/x-www-form-urlencoded"}

\* contentType?.includes('application/json')
IsJson(contentType) == contentType.t = "str" /\ contentType.v \in JsonContentTypes

FieldNames == {"name", "email", "phone", "message"}

\* value || ''
OrEmpty(val) == IF Truthy(val) THEN val ELSE Str(<<>>)

\* formData.get(key): the field of a form-encoded body, null for a key the
\* body does not carry (a body that is not form-encoded carries none).
FormGet(body, key) == IF body.enc = "form" THEN body[key] ELSE Undef

\* The content-type branch: request.json() or request.formData() with the
\* '' defaults.  json() rejects on a body that is not JSON; formData() rejects
\* when the content type is not a form type.
ParseBody(req) ==
  IF IsJson(req.contentType)
  THEN IF req.body.enc = "json"
       THEN [ok |-> TRUE, err |-> "none", isObject |-> req.body.isObject,
             data |-> [k \in FieldNames |-> req.body[k]]]
       ELSE [ok |-> FALSE, err |-> "SyntaxError: Unexpected token",
             isObject |-> FALSE, data |-> [k \in FieldNames |-> Undef]]
  ELSE IF req.contentType.t = "str" /\ req.contentType.v \in FormContentTypes
       THEN [ok |-> TRUE, err |-> "none", isObject |-> TRUE,
             data |-> [k \in FieldNames |-> OrEmpty(FormGet(req.body, k))]]
       ELSE [ok |-> FALSE, err |-> "TypeError: Unrecognized Content-Type",
             isObject |-> FALSE, data |-> [k \in FieldNames |-> Undef]]

\* sanitize(contactData.x) throws when contactData is null or x is not a string
SanitizeThrows(parsed) ==
  ~parsed.isObject \/ \E k \in FieldNames : parsed.data[k].t # "str"

----------------------------------------------------------------------------
\* Validation

MissingRequired(cd) == cd.name = <<>> \/ cd.email = <<>> \/ cd.message = <<>>

TooLongInclusive(cd) ==
  \/ Len(cd.name) >= NameLimit
  \/ Len(cd.email) >= EmailLimit
  \/ Len(cd.message) >= MessageLimit

TooLong(cd) ==
  \/ Len(cd.name) > NameLimit
  \/ Len(cd.email) > EmailLimit
  \/ Len(cd.message) > MessageLimit

\* The three checks in the order of the code; "ok" when all pass.
ValidateLengthFirst(cd) ==
  IF MissingRequired(cd) THEN "Missing required fields: name, email, message"
  ELSE IF TooLong(cd) THEN "Input too long"
  ELSE IF ~emailRegexTest(cd.email) THEN "Invalid email format"
  ELSE "ok"

Validate(cd) ==
  IF MissingRequired(cd) THEN "Missing required fields: name, email, message"
  ELSE IF ~emailRegexTest(cd.email) THEN "Invalid email format"
  ELSE IF TooLong(cd) THEN "Input too long"
  ELSE "ok"

----------------------------------------------------------------------------
\* Outbound request

Unknown == <<"u", "n", "k", "n", "o", "w", "n">>
NotProvided == <<"N", "o", "t", " ", "p", "r", "o", "v", "i", "d", "e", "d">>

\* a || b || 'unknown' on header values
HeaderOr(a, b) == IF Truthy(a) THEN a.v ELSE IF Truthy(b) THEN b.v ELSE Unknown

\* message.replace(/\n/g, '<br>'); the inserted tag is one element
NlToBr(str) == [i \in 1..Len(str) |-> IF str[i] = "\n" THEN "<br>" ELSE str[i]]

EmailPayload(req, e, cd) ==
  [from |-> "contact@yourdomain.com",
   to |-> e.TO_EMAIL,
   authorization |-> e.RESEND_API_KEY,
   subjectName |-> cd.name,
   htmlEmail |-> cd.email,
   htmlPhone |-> IF cd.phone = <<>> THEN NotProvided ELSE cd.phone,
   htmlMessage |-> NlToBr(cd.message),
   clientIP |-> HeaderOr(req.cfConnectingIP, req.xForwardedFor),
   userAgent |-> HeaderOr(req.userAgent, Undef),
   reply_to |-> cd.email]

NoData ==
  [sanitized |-> FALSE, name |-> <<>>, email |-> <<>>, phone |-> <<>>,
   message |-> <<>>]

NoResult == [kind |-> "none", status |-> 0]

\* Response.ok
OkAny(res) == res.kind = "response"

Ok(res) == res.kind = "response" /\ res.status >= 200 /\ res.status <= 299

----------------------------------------------------------------------------
\* Inputs.  An origin is one character here ("s" the site, "o" another allowed
\* site, "e" a foreign one); the allow-list is the comma-separated text.

A == "a"

ValidEmail == <<"a", "@", "b", ".", "c", "o">>
MailTail == <<"@", "b", ".", "c", "o">>
Tag == <<"<", "b", ">">>

Origins == {Undef, Str(<<>>), Str(<<"s">>), Str(<<"o">>), Str(<<"e">>)}

AllowLists ==
  {Undef, Str(<<>>), Str(<<"s">>), Str(<<"s", ",", "o">>), Str(<<"s", "e">>)}

ContentTypes ==
  {Undef, Str("application/json"), Str("application/json; charset=utf-8"),
   Str("application/x-www-form-urlencoded"), Str("text/plain")}

Body(enc, isObject, name, email, phone, message) ==
  [enc |-> enc, isObject |-> isObject, name |-> name, email |-> email,
   phone |-> phone, message |-> message]

Garbage == Body("garbage", FALSE, Undef, Undef, Undef, Undef)
JsonNull == Body("json", FALSE, Undef, Undef, Undef, Undef)

Encodings == {"json", "form"}

ShortNames ==
  {Undef, Other, Str(<<>>), Str(<<A>>), Str(Tag), Str(<<" ", A, " ">>)}

ShortEmails ==
  {Undef, Str(<<>>), Str(ValidEmail),
   Str(<<"n", "o", "t", "-", "a", "n", "-", "e", "m", "a", "i", "l">>),
   Str(<<"a", "@", "b">>),
   Str(<<"a", "@", "@", "b", ".", "c", "o">>),
   Str(<<"a", " ", "b", "@", "c", ".", "c", "o">>),
   Str(<<"@", "b", ".", "c", "o">>),
   Str(<<"a", "@", ".", "c", "o">>),
   Str(<<"a", "@", "b", ".">>),
   Str(<<"a", ".", "b", "@", "c", ".", "d", ".", "e">>),
   Str(<<"a", "@", "b", ".", "c", "\n", "d">>),
   Str(<<" ">> \o ValidEmail \o <<"\n">>),
   Str(<<"a", "<", "i", ">", "@", "b", ".", "c", "o">>)}

ShortPhones == {Undef, Other, Str(<<>>), Str(<<"5">>)}

ShortMessages ==
  {Undef, Str(<<>>), Str(<<"h", "i">>), Str(<<"a", "\n", "b">>),
   Str(<<"<", "<", "b", ">", "i", ">">>),
   Str(<<"<", "a", "<", "b", ">", "c", ">">>)}

LongNames ==
  {Str(<<A>>), Str(<<>>), Str(Rep(A, NameLimit)), Str(Rep(A, NameLimit + 1)),
   Str(Rep(A, NameLimit) \o Tag)}

LongEmails ==
  {Str(ValidEmail),
   Str(Rep(A, EmailLimit - 5) \o MailTail),
   Str(Rep(A, EmailLimit - 4) \o MailTail),
   Str(Rep(A, EmailLimit + 1)),
   Str(Tag \o Rep(A, EmailLimit - 5) \o MailTail \o <<" ">>)}

LongMessages ==
  {Str(<<"h", "i">>), Str(Rep(A, MessageLimit)), Str(Rep(A, MessageLimit + 1)),
   Str(<<" ">> \o Rep(A, MessageLimit) \o Tag)}

Alphabet == {"<", ">", "a", " "}

AllStrings == UNION {[1..n -> Alphabet] : n \in 0..MaxLen}

Bodies ==
  {Garbage, JsonNull}
    \cup {Body(e, TRUE, n, m, p, t) :
            e \in Encodings, n \in ShortNames, m \in ShortEmails,
            p \in ShortPhones, t \in ShortMessages}
    \cup {Body(e, TRUE, n, m, Str(<<>>), t) :
            e \in Encodings, n \in LongNames, m \in LongEmails,
            t \in LongMessages}
    \cup {Body(e, TRUE, Str(<<A>>), Str(ValidEmail), Str(<<>>), Str(t)) :
            e \in Encodings, t \in AllStrings}

PlainBodies ==
  {Garbage, JsonNull,
   Body("json", TRUE, Str(<<A>>), Str(ValidEmail), Str(<<"5">>), Str(<<"h", "i">>)),
   Body("form", TRUE, Str(<<A>>), Str(ValidEmail), Undef, Str(<<"h", "i">>)),
   Body("form", TRUE, Undef, Str(ValidEmail), Undef, Str(<<"h", "i">>))}

Request(origin, contentType, body, ip, fwd, ua) ==
  [origin |-> origin, contentType |-> contentType, body |-> body,
   cfConnectingIP |-> ip, xForwardedFor |-> fwd, userAgent |-> ua]

Requests ==
  {Request(o, c, b, Undef, Undef, Undef) :
     o \in Origins, c \in ContentTypes, b \in PlainBodies}
    \cup {Request(o, Str(IF b.enc = "form"
                         THEN "application/x-www-form-urlencoded"
                         ELSE "application/json"), b, Undef, Undef, Undef) :
            o \in {Undef, Str(<<"s">>)}, b \in Bodies}
    \cup {Request(Undef, Str("application/json"),
                  Body("json", TRUE, Str(<<A>>), Str(ValidEmail), Str(<<>>),
                       Str(<<"h", "i">>)), ip, fwd, ua) :
            ip \in {Undef, Str(<<"1">>)}, fwd \in {Undef, Str(<<>>), Str(<<"2">>)},
            ua \in {Undef, Str(<<"c", "u", "r", "l">>)}}

Env(allowed) ==
  [RESEND_API_KEY |-> "re_key", TO_EMAIL |-> "owner@site.example",
   ALLOWED_ORIGINS |-> allowed]

\* What the provider's endpoint can do with the one request it is sent.
ProviderOutcomes ==
  {[kind |-> "response", status |-> st] : st \in {200, 202, 401, 422, 500}}
    \cup {[kind |-> "reject", status |-> 0]}

----------------------------------------------------------------------------
\* The handler, cut at its two awaits.

Init ==
  /\ request \in Requests
  /\ env \in {Env(al) : al \in AllowLists}
  /\ (request.body \notin PlainBodies \/ request.cfConnectingIP # Undef
        \/ request.xForwardedFor # Undef \/ request.userAgent # Undef
        => env = Env(Str(<<"s", ",", "o">>)))
  /\ pc = "origin"
  /\ bodyRead = FALSE
  /\ contactData = NoData
  /\ fetched = <<>>
  /\ providerResult = NoResult
  /\ error = "none"
  /\ response = <<>>

\* From the entry to the first await: the origin check.
Begin ==
  /\ pc = "origin"
  /\ IF env.ALLOWED_ORIGINS.t # "str"
     THEN Catch("TypeError: Cannot read properties of undefined (reading 'split')")
     ELSE IF OriginForbidden(request.origin, Split(env.ALLOWED_ORIGINS.v))
          THEN Return(TextResponse("Forbidden", 403))
          ELSE pc' = "body" /\ UNCHANGED <<error, response>>
  /\ UNCHANGED <<request, env, bodyRead, contactData, fetched, providerResult>>

\* The body has arrived: parse, sanitize, validate, call the provider.
AfterBody ==
  /\ pc = "body"
  /\ bodyRead' = TRUE
  /\ LET parsed == ParseBody(request)
         cd == [sanitized |-> TRUE,
                name |-> sanitize(parsed.data.name.v),
                email |-> sanitize(parsed.data.email.v),
                phone |-> sanitize(parsed.data.phone.v),
                message |-> sanitize(parsed.data.message.v)]
     IN IF ~parsed.ok
        THEN Catch(parsed.err) /\ UNCHANGED <<contactData, fetched>>
        ELSE IF SanitizeThrows(parsed)
        THEN /\ Catch("TypeError: Cannot read properties of undefined (reading 'replace')")
             /\ UNCHANGED <<contactData, fetched>>
        ELSE /\ contactData' = cd
             /\ IF Validate(cd) # "ok"
                THEN Return(TextResponse(Validate(cd), 400)) /\ UNCHANGED fetched
                ELSE /\ fetched' = Append(fetched, EmailPayload(request, env, cd))
                     /\ pc' = "fetch"
                     /\ UNCHANGED <<error, response>>
  /\ UNCHANGED <<request, env, providerResult>>

\* The provider call has settled with outcome r.
FetchSettledRetry(r) ==
  /\ providerResult' = r
  /\ IF r.kind = "reject"
     THEN Catch("TypeError: fetch failed") /\ UNCHANGED fetched
     ELSE IF ~Ok(r)
          THEN IF Len(fetched) < 2
               THEN /\ fetched' = Append(fetched, fetched[1])
                    /\ UNCHANGED <<pc, error, response>>
               ELSE Catch("Failed to send email") /\ UNCHANGED fetched
          ELSE /\ Return(JsonResponse(TRUE, "Email sent successfully", 200))
               /\ UNCHANGED fetched

FetchSettled(r) ==
  /\ providerResult' = r
  /\ UNCHANGED fetched
  /\ IF r.kind = "reject"
     THEN Catch("TypeError: fetch failed")
     ELSE IF ~Ok(r)
          THEN Catch("Failed to send email")
          ELSE Return(JsonResponse(TRUE, "Email sent successfully", 200))

AfterFetch ==
  /\ pc = "fetch"
  /\ \E r \in ProviderOutcomes : FetchSettled(r)
  /\ UNCHANGED <<request, env, bodyRead, contactData>>

Next == Begin \/ AfterBody \/ AfterFetch

Spec == Init /\ [][Next]_vars

----------------------------------------------------------------------------
\* Properties

\* x is one of the entries of the comma-separated text list
IsEntry(list, x) ==
  /\ \A i \in 1..Len(x) : x[i] # ","
  /\ \E a \in 1..(Len(list) + 1) :
       /\ a + Len(x) - 1 <= Len(list)
       /\ SubSeq(list, a, a + Len(x) - 1) = x
       /\ (a = 1 \/ list[a - 1] = ",")
       /\ (a + Len(x) = Len(list) + 1 \/ list[a + Len(x)] = ",")

\* a '<' with a '>' somewhere after it
HasTag(str) ==
  \E i \in {k \in 1..Len(str) : str[k] = "<"} :
    \E j \in (i + 1)..Len(str) : str[j] = ">"

Plain(str, lo, hi) == \A k \in lo..hi : str[k] \notin {" ", "\n", "\t", "@"}

\* local@domain.tld: non-empty runs of plain characters around one '@' and
\* a '.' after it
EmailShape(str) ==
  \E i \in {k \in 1..Len(str) : str[k] = "@"} :
    \E j \in {k \in 1..Len(str) : str[k] = "."} :
      /\ 1 < i /\ i + 1 < j /\ j < Len(str)
      /\ Plain(str, 1, i - 1) /\ Plain(str, i + 1, j - 1)
      /\ Plain(str, j + 1, Len(str))

\* The request reached the field handling with a body that parsed to a set
\* of fields, each a string or absent.
FieldsArrived ==
  /\ bodyRead /\ pc # "body"
  /\ ParseBody(request).ok /\ request.body.isObject
  /\ \A k \in FieldNames : request.body[k].t \in {"str", "undef"}

EmptyAfterSanitation(val) ==
  val.t = "undef" \/ (val.t = "str" /\ sanitize(val.v) = <<>>)

Replied(text, status) ==
  /\ Len(response) = 1
  /\ response[1].status = status
  /\ response[1].body = text

\* C1: a submission (JSON or form-encoded) in which name, email or message
\* is missing, or empty after sanitation, is answered with status 400.
C1_MissingFieldIs400 ==
  ( /\ FieldsArrived
    /\ request.body.phone.t = "str"
    /\ \E k \in {"name", "email", "message"} :
         EmptyAfterSanitation(request.body[k]) )
  => (Len(response) = 1 /\ response[1].status = 400)

\* C2: every sanitized value is free of tag-like substrings and sanitizing
\* it again changes nothing.
C2_SanitizedIsCleanAndStable ==
  contactData.sanitized =>
    \A k \in FieldNames :
      /\ ~HasTag(contactData[k])
      /\ sanitize(contactData[k]) = contactData[k]

C2_Witness ==
  /\ contactData.sanitized
  /\ request.body.message = Str(<<"<", "<", "b", ">", "i", ">">>)
  /\ contactData.message = <<"i", ">">>

\* C3: an Origin header whose value is not an entry of the allow-list is
\* answered 403 with nothing else done; a listed or absent Origin is never
\* answered 403.
C3_OriginPolicy ==
  env.ALLOWED_ORIGINS.t = "str" =>
    LET listed == /\ request.origin.t = "str"
                  /\ IsEntry(env.ALLOWED_ORIGINS.v, request.origin.v)
    IN /\ (request.origin.t = "str" /\ ~listed /\ pc # "origin")
            => /\ pc = "done" /\ Replied("Forbidden", 403)
               /\ ~bodyRead /\ fetched = <<>>
       /\ (request.origin.t # "str" \/ listed)
            => \A i \in 1..Len(response) : response[i].status # 403

\* C4: once the provider has answered a validated submission, a success
\* status gives 200 with the success body and any other status gives 500
\* with the failure body.
C4_ProviderOutcome ==
  (pc = "done" /\ providerResult.kind = "response") =>
    IF providerResult.status >= 200 /\ providerResult.status <= 299
    THEN Replied("{\"success\":true,\"message\":\"Email sent successfully\"}", 200)
    ELSE Replied("{\"success\":false,\"message\":\"Failed to send email\"}", 500)

C4_Witness ==
  /\ pc = "done" /\ IsJson(request.contentType)
  /\ providerResult = [kind |-> "response", status |-> 200]
  /\ Len(response) = 1 /\ response[1].status = 200

\* C5: the provider is called at most once, not at all when the reply is
\* 403 or 400, and a 200 reply follows exactly one call answered with a
\* success status.
C5_AtMostOneCall ==
  /\ Len(fetched) <= 1
  /\ \A i \in 1..Len(response) :
       /\ response[i].status \in {400, 403} => fetched = <<>>
       /\ response[i].status = 200 =>
            /\ Len(fetched) = 1
            /\ providerResult.kind = "response"
            /\ providerResult.status >= 200 /\ providerResult.status <= 299

C5_Witness ==
  /\ pc = "done" /\ Len(fetched) = 1
  /\ providerResult.kind = "response" /\ providerResult.status = 401
  /\ Len(response) = 1 /\ response[1].status = 500

\* C6: with the required-field and email checks passing, the submission is
\* sent on exactly when the sanitized name, email and message are at most
\* 100, 255 and 5000 long, and is otherwise answered 400 "Input too long".
C6_LengthLimits ==
  ( /\ contactData.sanitized
    /\ contactData.name # <<>> /\ contactData.message # <<>>
    /\ EmailShape(contactData.email) )
  => IF /\ Len(contactData.name) <= 100
        /\ Len(contactData.email) <= 255
        /\ Len(contactData.message) <= 5000
     THEN Len(fetched) = 1 /\ \A i \in 1..Len(response) : response[i].status # 400
     ELSE Replied("Input too long", 400) /\ fetched = <<>>

C6_Witness ==
  /\ contactData.sanitized
  /\ Len(request.body.message.v) > 5000 /\ Len(contactData.message) = 5000
  /\ Len(request.body.name.v) > 100 /\ Len(contactData.name) = 100
  /\ Len(request.body.email.v) > 255 /\ Len(contactData.email) = 255
  /\ Len(fetched) = 1

\* C7: with name and message non-empty, the reply is 400 "Invalid email
\* format" exactly when the sanitized non-empty email is not of the shape
\* local@domain.tld; the four bad examples are refused and a@b.co is not.
C7_EmailFormat ==
  ( /\ contactData.sanitized
    /\ contactData.name # <<>> /\ contactData.message # <<>>
    /\ contactData.email # <<>> )
  => /\ Replied("Invalid email format", 400) <=> ~EmailShape(contactData.email)
     /\ contactData.email \in
          {<<"n", "o", "t", "-", "a", "n", "-", "e", "m", "a", "i", "l">>,
           <<"a", "@", "b">>,
           <<"a", "@", "@", "b", ".", "c", "o">>,
           <<"a", " ", "b", "@", "c", ".", "c", "o">>}
          => Replied("Invalid email format", 400)
     /\ contactData.email = <<"a", "@", "b", ".", "c", "o">>
          => ~Replied("Invalid email format", 400)

C7_Witness ==
  /\ contactData.sanitized
  /\ contactData.name # <<>> /\ contactData.message # <<>>
  /\ contactData.email = <<"a", "@", "b">>
  /\ Replied("Invalid email format", 400)

\* C8: a finished invocation has returned exactly one response, an
\* unfinished one none, and every failure raised on the way ends the
\* invocation with the fixed 500 body, whatever the error was.
C8_ErrorBoundary ==
  /\ pc \in {"origin", "body", "fetch", "done"}
  /\ Len(response) <= 1
  /\ (pc = "done") <=> (Len(response) = 1)
  /\ error # "none" =>
       /\ pc = "done"
       /\ response = <<[status |-> 500,
                        body |-> "{\"success\":false,\"message\":\"Failed to send email\"}",
                        contentType |-> "application/json"]>>

C8_Witness ==
  /\ pc = "done" /\ Len(response) = 1 /\ response[1].status = 500
  /\ error = "SyntaxError: Unexpected token"

\* C9: with valid name, email and message, a submission whose phone is
\* absent or empty reaches the provider call, for both body variants.
C9_PhoneOptional ==
  ( /\ FieldsArrived
    /\ request.body.phone \in {Undef, Str(<<>>)}
    /\ \A k \in {"name", "email", "message"} : request.body[k].t = "str"
    /\ Validate([name |-> sanitize(request.body.name.v),
                 email |-> sanitize(request.body.email.v),
                 message |-> sanitize(request.body.message.v)]) = "ok" )
  => Len(fetched) >= 1

\* C10: the first failing check alone decides the reply: origin before the
\* body is read, then required fields, then email shape, then length.
C10_CheckOrder ==
  /\ ( /\ env.ALLOWED_ORIGINS.t = "str"
       /\ request.origin.t = "str" /\ request.origin.v # <<>>
       /\ ~IsEntry(env.ALLOWED_ORIGINS.v, request.origin.v)
       /\ pc # "origin" )
     => Replied("Forbidden", 403) /\ ~bodyRead
  /\ contactData.sanitized =>
       IF \E k \in {"name", "email", "message"} : contactData[k] = <<>>
       THEN Replied("Missing required fields: name, email, message", 400)
       ELSE IF ~EmailShape(contactData.email)
       THEN Replied("Invalid email format", 400)
       ELSE IF \/ Len(contactData.name) > 100
               \/ Len(contactData.email) > 255
               \/ Len(contactData.message) > 5000
       THEN Replied("Input too long", 400)
       ELSE \A i \in 1..Len(response) : response[i].status # 400

C10_Witness ==
  /\ contactData.sanitized
  /\ contactData.name # <<>> /\ contactData.message # <<>>
  /\ Len(contactData.email) > 255 /\ ~EmailShape(contactData.email)
  /\ Replied("Invalid email format", 400)

====
